---- MODULE Spec2Model ----
(***************************************************************************)
(* Model of fin_agent.agent.core.FinAgent: the run() loop (LLM call,       *)
(* streamed-chunk pump with <think> demultiplexing, tool dispatch) and     *)
(* the tool executor of fin_agent.tools.tushare_tools.                     *)
(*                                                                         *)
(* Text that the code slices (stream deltas, the pending buffer, the raw   *)
(* accumulated content) is a sequence of one-character strings.  Opaque    *)
(* text (user input, tool results) is a TLA+ string.                       *)
(***************************************************************************)
EXTENDS Integers, Sequences, FiniteSets, TLC

VARIABLES
    history,            \* self.history: sequence of message records
    llm,                \* self.llm: generation number of the transport handle
    profile,            \* profile_manager state read by _get_system_content
    stream_mode,        \* Config.LLM_STREAM
    pc,                 \* position of run(): idle, chat, pump, decide, dispatch
    ret,                \* how the last run() ended and what it returned, while
                        \* run() is the last call made on the agent
    step,               \* local variable step of run()
    message,            \* local variable message of run()
    rest,               \* text the response generator has not yet yielded
    term,               \* terminal response chunk the generator will yield
    full_content,       \* local variable full_content
    buffer,             \* local variable buffer (pending text)
    thinking_state,     \* local variable thinking_state
    out,                \* what the pump wrote to the display, in order
    idx,                \* position of the for loop over message.tool_calls
    chats,              \* number of chat calls made so far in the session
    reasoning,          \* the texts written to the reasoning sink so far
    base,               \* history as it was when the current run() was entered
    op,                 \* the last call made on the agent, and its result
    file,               \* the session file last_session.json
    sent,               \* the message list the last chat call was given
    holdings,           \* PortfolioManager.holdings
    portfolio_file,     \* the file portfolio.json
    call,               \* the last call on the portfolio or on Config
    env                 \* the .env files, os.environ and Config's attributes

vars == <<history, llm, profile, stream_mode, pc, ret, step, message, rest,
          term, full_content, buffer, thinking_state, out, idx, chats,
          reasoning, base, op, file, sent, holdings, portfolio_file, call, env>>

streamVars == <<rest, term, full_content, buffer, thinking_state, out>>

\* the state of the portfolio and of the configuration, which the agent's
\* own methods leave alone (but for a tool that resets the configuration)
sideVars == <<holdings, portfolio_file, call, env>>

----------------------------------------------------------------------------
(* Bounds *)

MaxTokens == 4      \* tokens per stream text explored by the decoder spec
MaxChats == 2       \* chat calls per session
MaxChunk == 10      \* longest content chunk of a streamed reply in a session
MaxCalls == 2       \* tool calls per assistant message
MaxLlm == 1         \* transport rebuilds per session

----------------------------------------------------------------------------
(* Strings as character sequences *)

OpenTag == <<"<", "t", "h", "i", "n", "k", ">">>
CloseTag == <<"<", "/", "t", "h", "i", "n", "k", ">">>
LF == "\n"
CR == "\r"

\* s[a:b] of Python for 0 <= a, b (0-based, end exclusive)
Slice(s, a, b) == SubSeq(s, a + 1, b)

\* s.startswith(m)
StartsWith(s, m) == Len(s) >= Len(m) /\ SubSeq(s, 1, Len(m)) = m

\* the 1-based positions at which m occurs in s
Occurrences(s, m) ==
    {i \in 1..(Len(s) - Len(m) + 1) : SubSeq(s, i, i + Len(m) - 1) = m}

\* m in s
Contains(s, m) == Occurrences(s, m) # {}

\* s.find(m) + 1: first occurrence, 0 when there is none
Find(s, m) ==
    IF Contains(s, m)
    THEN CHOOSE i \in Occurrences(s, m) : \A j \in Occurrences(s, m) : i <= j
    ELSE 0

\* s.split(m, 1) when m in s
SplitPre(s, m) == SubSeq(s, 1, Find(s, m) - 1)
SplitPost(s, m) == SubSeq(s, Find(s, m) + Len(m), Len(s))

Min(a, b) == IF a <= b THEN a ELSE b

RECURSIVE Flatten(_)
Flatten(ss) == IF ss = <<>> THEN <<>> ELSE Head(ss) \o Flatten(Tail(ss))

----------------------------------------------------------------------------
(* The display: update_md(text) writes to the visible sink, print(text)    *)
(* in thinking style to the reasoning sink.  Text the code drops (a        *)
(* recognised marker, a swallowed newline) is logged under its own kind,   *)
(* so that the log accounts for every character taken from the buffer.     *)

Entry(kind, text) == [kind |-> kind, text |-> text]

\* one write of text to a sink; consecutive writes to one sink concatenate
Write(o, kind, text) ==
    IF text = <<>> THEN o
    ELSE IF o # <<>> /\ o[Len(o)].kind = kind /\ kind \in {"visible", "hidden"}
         THEN [o EXCEPT ![Len(o)] = Entry(kind, o[Len(o)].text \o text)]
         ELSE Append(o, Entry(kind, text))

RECURSIVE TextOf(_, _)
\* concatenation of the texts of the entries of o whose kind is in kinds
TextOf(o, kinds) ==
    IF o = <<>> THEN <<>>
    ELSE (IF Head(o).kind \in kinds THEN Head(o).text ELSE <<>>)
         \o TextOf(Tail(o), kinds)

Visible(o) == TextOf(o, {"visible"})
Hidden(o) == TextOf(o, {"hidden"})
Emitted(o) == TextOf(o, {"visible", "hidden"})
Taken(o) == TextOf(o, {"visible", "hidden", "open", "close", "newline"})

\* buffer[:-5]: prints one character that is also kept
VisibleSafeLong(b) == Slice(b, 0, Len(b) - 5)
\* to_print = buffer[:-6]
VisibleSafe(b) == Slice(b, 0, Len(b) - 6)

\* buffer[-5:]: keeps one character too few
VisibleTailShort(b) == Slice(b, Len(b) - 5, Len(b))
\* buffer = buffer[-6:]
VisibleTail(b) == Slice(b, Len(b) - 6, Len(b))

\* to_print = buffer[:-7]
HiddenSafe(b) == Slice(b, 0, Len(b) - 7)

\* buffer[-8:]: keeps one character too many
HiddenTailLong(b) == Slice(b, Len(b) - 8, Len(b))
\* buffer[-6:]: keeps one character too few
HiddenTailShort(b) == Slice(b, Len(b) - 6, Len(b))
\* buffer = buffer[-7:]
HiddenTail(b) == Slice(b, Len(b) - 7, Len(b))

\* the newline consumed right after </think>: "\n", else "\r\n", else nothing
SwallowedNewline(b) ==
    IF StartsWith(b, <<LF>>) THEN <<LF>>
    ELSE IF StartsWith(b, <<CR, LF>>) THEN <<CR, LF>>
    ELSE <<>>

Demux(b, th, o) == [buffer |-> b, thinking_state |-> th, out |-> o]

RECURSIVE DemuxLoop(_, _, _)
\* the inner "while True" loop of the pump, run after buffer += content
DemuxLoop(b, th, o) ==
    IF ~th
    THEN IF Contains(b, OpenTag)
         THEN DemuxLoop(SplitPost(b, OpenTag), TRUE,
                        Write(Write(o, "visible", SplitPre(b, OpenTag)),
                              "open", OpenTag))
         ELSE IF Len(b) < 7
              THEN Demux(b, th, o)
              ELSE Demux(VisibleTail(b), th, Write(o, "visible", VisibleSafe(b)))
    ELSE IF Contains(b, CloseTag)
         THEN LET post == SplitPost(b, CloseTag)
                  nl == SwallowedNewline(post)
              IN DemuxLoop(SubSeq(post, Len(nl) + 1, Len(post)), FALSE,
                           Write(Write(Write(o, "hidden", SplitPre(b, CloseTag)),
                                       "close", CloseTag),
                                 "newline", nl))
         ELSE IF Len(b) < 8
              THEN Demux(b, th, o)
              ELSE Demux(HiddenTail(b), th, Write(o, "hidden", HiddenSafe(b)))

\* one content chunk: buffer += content, then the loop
Feed(b, th, o, content) == DemuxLoop(b \o content, th, o)

\* the remaining buffer always given to update_md
FlushVisible(b, th, o) == Demux(b, th, Write(o, "visible", b))
\* "Print remaining buffer" after the generator is exhausted
Flush(b, th, o) ==
    Demux(b, th, Write(o, IF th THEN "hidden" ELSE "visible", b))

\* the whole pump over a list of content chunks, followed by the flush
RECURSIVE FeedAll(_, _, _, _)
FeedAll(b, th, o, chunks) ==
    IF chunks = <<>> THEN Flush(b, th, o)
    ELSE LET d == Feed(b, th, o, Head(chunks))
         IN FeedAll(d.buffer, d.thinking_state, d.out, Tail(chunks))

\* the outputs when the whole text arrives as a single chunk
Whole(text) == FeedAll(<<>>, FALSE, <<>>, <<text>>)

----------------------------------------------------------------------------
(* Messages.  Every history entry has the same fields in the model; a      *)
(* field a Python entry does not have holds NoId / <<>>.  tool_calls None  *)
(* and [] are both <<>> (the code only tests "not message.tool_calls").    *)
(* shape is "dict" for a dictionary and "object" for an object (a          *)
(* SimpleNamespace, a message or a tool call of the transport); json.dump  *)
(* serialises dictionaries of strings and dictionaries only.               *)

NoId == "-"

Msg(role, content, tool_calls, tool_call_id, shape) ==
    [role |-> role, content |-> content, tool_calls |-> tool_calls,
     tool_call_id |-> tool_call_id, shape |-> shape]

\* message = None
NoMessage == [role |-> "none", content |-> <<>>, tool_calls |-> <<>>,
              kind |-> "none"]

\* what _to_dict finds on a message object of the transport: a model_dump
\* method (the message of the openai library), a to_dict method, or neither
\* (a SimpleNamespace)
ReplyKinds == {"model_dump", "to_dict", "object"}

\* a message object returned by the transport
Reply(kind, content, tool_calls) ==
    [role |-> "assistant", content |-> content, tool_calls |-> tool_calls,
     kind |-> kind]

\* an object without the attribute role
Unset == "unset"
Roleless(m) == [m EXCEPT !.role = Unset]

\* _get_system_content(): a function of the current profile summary
SystemContent(p) == p

SystemMsg(p) == Msg("system", SystemContent(p), <<>>, NoId, "dict")
UserMsg(text) == Msg("user", text, <<>>, NoId, "dict")
ToolMsg(call_id, result) == Msg("tool", result, <<>>, call_id, "dict")

\* _init_history()
InitHistory(p) == <<SystemMsg(p)>>

\* the tool calls of a message as model_dump() and to_dict() give them:
\* dictionaries
AsDicts(tool_calls) ==
    [i \in 1..Len(tool_calls) |-> [tool_calls[i] EXCEPT !.shape = "dict"]]

\* the message reduced to its role and tool_calls
ToDictWithoutContent(m) ==
    IF "shape" \in DOMAIN m /\ m.shape = "dict" THEN m
    ELSE IF m.kind = "model_dump"
    THEN Msg(m.role, <<>>, AsDicts(m.tool_calls), NoId, "dict")
    ELSE IF m.kind = "to_dict"
    THEN Msg(m.role, <<>>, AsDicts(m.tool_calls), NoId, "dict")
    ELSE Msg(IF m.role = Unset THEN "assistant" ELSE m.role,
             <<>>, m.tool_calls, NoId, "dict")
\* _to_dict(message): a dictionary as it is, the dictionary model_dump()
\* or to_dict() makes of the message, or else a dictionary of the role, the
\* content and the tool_calls of the object, the tool calls being kept as
\* the objects they are
ToDict(m) ==
    IF "shape" \in DOMAIN m /\ m.shape = "dict" THEN m
    ELSE IF m.kind = "model_dump"
    THEN Msg(m.role, m.content, AsDicts(m.tool_calls), NoId, "dict")
    ELSE IF m.kind = "to_dict"
    THEN Msg(m.role, m.content, AsDicts(m.tool_calls), NoId, "dict")
    ELSE Msg(IF m.role = Unset THEN "assistant" ELSE m.role,
             m.content, m.tool_calls, NoId, "dict")

\* SimpleNamespace(role="assistant", content=full_content, tool_calls=None)
PartialMsg(text) == Msg("assistant", text, <<>>, NoId, "object")

\* the history started afresh by every run()
RefreshSystemReset(h, p) == <<SystemMsg(p)>>
\* the system message always inserted at index 0
RefreshSystemInsert(h, p) == <<SystemMsg(p)>> \o h
\* the first statement of run(): refresh index 0 in place, or insert
RefreshSystem(h, p) ==
    IF h # <<>> /\ h[1].role = "system"
    THEN [h EXCEPT ![1].content = SystemContent(p)]
    ELSE <<SystemMsg(p)>> \o h

\* the messages argument of self.llm.chat(self.history, ...)
PassedWithoutSystem(h) == Tail(h)
Passed(h) == h

----------------------------------------------------------------------------
(* Persistence: save_session and load_session on last_session.json         *)

\* the file: absent, valid (the JSON text of a list of messages), or
\* truncated (json.dump raised after writing a prefix of the list)
NoFile == [state |-> "absent", messages |-> <<>>]
File(state, messages) == [state |-> state, messages |-> messages]

\* the result of a call on the agent
Op(name, result) == [name |-> name, result |-> result]

\* the entries of h that json cannot serialise: the objects, and the
\* dictionaries that hold tool call objects
Unserialisable(h) ==
    {i \in 1..Len(h) :
        \/ h[i].shape # "dict"
        \/ \E j \in 1..Len(h[i].tool_calls) : h[i].tool_calls[j].shape # "dict"}

\* the smallest element of a non-empty set of numbers
Least(S) == CHOOSE i \in S : \A j \in S : i <= j

\* open(filepath, 'w') and json.dump(self.history, f, indent=2): the entries
\* are written one after the other until one cannot be serialised
Dump(h) ==
    IF Unserialisable(h) = {}
    THEN File("valid", h)
    ELSE File("truncated", SubSeq(h, 1, Least(Unserialisable(h)) - 1))

\* json.load(f) followed by the refresh of index 0
Loaded(f, p) ==
    IF f.messages # <<>> /\ f.messages[1].role = "system"
    THEN [f.messages EXCEPT ![1].content = SystemContent(p)]
    ELSE f.messages

----------------------------------------------------------------------------
(* The tool executor, tushare_tools.execute_tool_call                      *)

ArgsOk == "{\"ts_code\": \"000001.SZ\"}"
ArgsEmpty == "{}"
ArgsMalformed == "{"

\* the JSONDecodeError of json.loads is missed
JsonInvalidMissed(arguments) == FALSE
\* json.loads(arguments) raises JSONDecodeError
JsonInvalid(arguments) == arguments = ArgsMalformed

Returned(result) == [raised |-> FALSE, result |-> result]
Raised(what) == [raised |-> TRUE, result |-> what]

execute_tool_call(tool_name, arguments) ==
    IF JsonInvalid(arguments)
    THEN Returned("Error: Invalid JSON arguments.")
    ELSE IF tool_name = "get_current_time"
    THEN Returned("2026-01-01 00:00:00")
    ELSE IF tool_name = "get_daily_price"
    THEN IF arguments = ArgsOk
         THEN Returned("[{\"ts_code\": \"000001.SZ\"}]")
         ELSE Raised("TypeError")   \* get_daily_price(**{}) lacks ts_code
    ELSE Returned("Error: Tool '" \o tool_name \o "' not found.")

----------------------------------------------------------------------------
(* Inputs *)

RevenueRose == <<"R", "e", "v", "e", "n", "u", "e", " ", "r", "o", "s", "e">>
Ok == <<"o", "k">>
ThinkThenOk == OpenTag \o <<"h", "m">> \o CloseTag \o Ok

\* texts the decoder specification feeds: concatenations of these tokens
Tokens == {OpenTag, CloseTag, <<"<", "t", "h", "i">>, <<"a">>, <<LF>>, <<CR>>}
TokenSeqs == UNION {[1..n -> Tokens] : n \in 0..MaxTokens}
DemuxTexts == {Flatten(ts) : ts \in TokenSeqs}

\* texts a streamed response carries in the session specification
AgentTexts == {<<>>, RevenueRose, ThinkThenOk}

UserInputs == {"q"}

CallIds == <<"a", "b", "c", "d">>
PlainCall == [name |-> "get_current_time", arguments |-> ArgsEmpty]
CallKinds == {PlainCall,
              [name |-> "get_daily_price", arguments |-> ArgsEmpty],
              [name |-> "get_daily_price", arguments |-> ArgsMalformed],
              [name |-> "reset_core_config", arguments |-> ArgsEmpty]}

\* a tool call of a message object: an object (tool_call.function.name)
ToolCall(id, kind) ==
    [id |-> id, name |-> kind.name, arguments |-> kind.arguments,
     shape |-> "object"]

\* the tool_calls lists an assistant message may carry: 1..MaxCalls calls,
\* ids unique within the message, one call of any kind at any position among
\* plain get_current_time calls
CallLists ==
    UNION {{[i \in 1..n |-> ToolCall(CallIds[i], IF i = p THEN k ELSE PlainCall)]
            : <<p, k>> \in (1..n) \X CallKinds}
           : n \in 1..MaxCalls}

FinalReplies ==
    {Reply(k, Ok, <<>>) : k \in ReplyKinds}
    \cup {Roleless(Reply("object", Ok, <<>>))}
\* the replies that ask for tool calls: messages of the openai library with
\* any of the lists, and an object with one plain call
ToolReplies ==
    {Reply("model_dump", <<>>, cl) : cl \in CallLists}
    \cup {Reply("object", <<>>, <<ToolCall(CallIds[1], PlainCall)>>)}

\* the messages a stream ends with: an object without tool calls, or a
\* message of the openai library with any of the lists
StreamReplies ==
    {Reply("object", Ok, <<>>)}
    \cup {Reply("model_dump", <<>>, cl) : cl \in CallLists}

\* the terminal chunk of a stream: a reply, or none
NoTerm == [present |-> FALSE, msg |-> NoMessage]
Term(m) == [present |-> TRUE, msg |-> m]

----------------------------------------------------------------------------
(* Return values of run() *)

EmptyString == <<>>
ErrorString == <<"E", "r", "r", "o", "r", ":">>

\* how: the path on which run() ended; value: what it returned; at: the
\* position of run() when it ended
Running == [how |-> "running", value |-> EmptyString, at |-> "-"]
Never == [how |-> "never", value |-> EmptyString, at |-> "-"]
Return(how, value, at) == [how |-> how, value |-> value, at |-> at]
\* an exception that leaves run(): nothing is returned
Escapes(at) == [how |-> "exception", value |-> EmptyString, at |-> at]

----------------------------------------------------------------------------
(* PortfolioManager (portfolio.py): positions, cash and the transaction    *)
(* log, kept in self.holdings and written to portfolio.json                *)

MaxTrades == 3      \* logged transactions per portfolio

\* the last call made on the PortfolioManager or on Config: its name, its
\* arguments and the value it returned
Call(name, args, returned) == [name |-> name, args |-> args, returned |-> returned]
NoCall == Call("-", <<>>, <<>>)

RECURSIVE Gcd(_, _)
Gcd(a, b) == IF b = 0 THEN a ELSE Gcd(b, a % b)

\* a quotient of the code's float arithmetic, kept exact as a reduced
\* fraction: n / d with n >= 0 and d > 0
Quotient(n, d) == [num |-> n \div Gcd(n, d), den |-> d \div Gcd(n, d)]

\* {"positions": {}, "cash": 0.0, "history": []}
EmptyPositions == [c \in {} |-> 0]
EmptyHoldings == [positions |-> EmptyPositions, cash |-> 0, history |-> <<>>]

\* one entry of holdings["history"]; its "date" is the wall clock, left out
Trade(action, ts_code, amount, price) ==
    [action |-> action, ts_code |-> ts_code, amount |-> amount, price |-> price]

\* portfolio.json: absent, or the holdings last dumped into it
NoPortfolioFile == [exists |-> FALSE, holdings |-> EmptyHoldings]
PortfolioFile(h) == [exists |-> TRUE, holdings |-> h]

\* self.holdings = self._load_portfolio()
load_portfolio(f) == IF f.exists THEN f.holdings ELSE EmptyHoldings

\* what a method of the manager leaves behind: the holdings, whether it
\* called _save_portfolio(), and the string it returned (its f-string parts)
Outcome(h, saved, returned) == [holdings |-> h, saved |-> saved, returned |-> returned]

\* dict assignment positions[ts_code] = entry, and del positions[ts_code]
Put(positions, ts_code, entry) ==
    [c \in DOMAIN positions \cup {ts_code} |->
        IF c = ts_code THEN entry ELSE positions[c]]
Del(positions, ts_code) ==
    [c \in DOMAIN positions \ {ts_code} |-> positions[c]]

\* add_position without the test of the price
add_positionPriceUnchecked(h, ts_code, amount, price) ==
    IF amount <= 0
    THEN Outcome(h, FALSE, <<"Error: ", "Amount and price must be positive.">>)
    ELSE Outcome([positions |-> Put(h.positions, ts_code,
                                    [amount |-> amount, cost |-> Quotient(price, 1)]),
                  cash |-> h.cash - amount * price,
                  history |-> Append(h.history,
                                     Trade("BUY", ts_code, amount, price))],
                 TRUE,
                 <<"Successfully added ", amount, " shares of ", ts_code,
                   " at ", price, ".">>)

add_position(h, ts_code, amount, price) ==
    IF amount <= 0 \/ price <= 0
    THEN Outcome(h, FALSE, <<"Error: ", "Amount and price must be positive.">>)
    ELSE LET positions == h.positions
             held == ts_code \in DOMAIN positions
             current_amount == positions[ts_code].amount
             current_cost == positions[ts_code].cost
             new_amount == current_amount + amount
             \* (current_amount * current_cost + amount * price) / new_amount
             new_cost == Quotient(current_amount * current_cost.num
                                      + amount * price * current_cost.den,
                                  current_cost.den * new_amount)
             entry == IF held
                      THEN [amount |-> new_amount, cost |-> new_cost]
                      ELSE [amount |-> amount, cost |-> Quotient(price, 1)]
         IN  Outcome([positions |-> Put(positions, ts_code, entry),
                      cash |-> h.cash - amount * price,
                      history |-> Append(h.history,
                                         Trade("BUY", ts_code, amount, price))],
                     TRUE,
                     <<"Successfully added ", amount, " shares of ", ts_code,
                       " at ", price, ".">>)

remove_position(h, ts_code, amount, price) ==
    LET positions == h.positions IN
    IF ts_code \notin DOMAIN positions
    THEN Outcome(h, FALSE, <<"Error: ", "You do not hold ", ts_code, ".">>)
    ELSE LET current_amount == positions[ts_code].amount IN
         IF amount > current_amount
         THEN Outcome(h, FALSE,
                      <<"Error: ", "Insufficient shares. You have ",
                        current_amount, ", trying to sell ", amount, ".">>)
         ELSE Outcome([positions |->
                           IF amount = current_amount
                           THEN Del(positions, ts_code)
                           ELSE Put(positions, ts_code,
                                    [positions[ts_code] EXCEPT
                                        !.amount = current_amount - amount]),
                       cash |-> h.cash + amount * price,
                       history |-> Append(h.history,
                                          Trade("SELL", ts_code, amount, price))],
                      TRUE,
                      <<"Successfully sold ", amount, " shares of ", ts_code,
                        " at ", price, ".">>)

clear_portfolio(h) == Outcome(EmptyHoldings, TRUE, <<"Portfolio cleared.">>)

\* the stock codes, share counts and prices the calls are made with
Codes == {"A", "B"}
Amounts == {-1, 0, 1, 2}
Prices == {0, 1, 2}

----------------------------------------------------------------------------
(* Config (config.py): the .env files, the process environment and the     *)
(* class attributes. A text (a line, a name, a value) is the sequence of   *)
(* its tokens: words, "=", "#", the blank and the line break. Words are    *)
(* atoms: no word holds a blank, an "=" or a "#", and different sequences  *)
(* of tokens spell different texts, so that str.startswith and the regular *)
(* expressions of python-dotenv are tests on tokens.                       *)

MaxLines == 1       \* lines of a configuration file the program starts with
MaxFile == 2        \* lines of a file the program still updates

\* env_vars_to_clear, in the order of the list
env_vars_to_clear ==
    <<"TUSHARE_TOKEN", "LLM_PROVIDER",
      "DEEPSEEK_API_KEY", "DEEPSEEK_BASE_URL", "DEEPSEEK_MODEL",
      "OPENAI_API_KEY", "OPENAI_BASE_URL", "OPENAI_MODEL">>
CoreKeys == {env_vars_to_clear[i] : i \in 1..Len(env_vars_to_clear)}

\* the EMAIL_ settings Config.load reads
EmailKeys == {"EMAIL_SMTP_SERVER", "EMAIL_SMTP_PORT", "EMAIL_SENDER",
              "EMAIL_PASSWORD", "EMAIL_RECEIVER"}

\* the attributes of Config
AttributeNames == CoreKeys \cup {"LLM_STREAM"} \cup EmailKeys

Whitespace == {" ", "\n"}

\* str.strip(): the line without its leading and trailing whitespace
RECURSIVE LStrip(_)
LStrip(line) ==
    IF line # <<>> /\ Head(line) \in Whitespace THEN LStrip(Tail(line)) ELSE line
RECURSIVE RStrip(_)
RStrip(line) ==
    IF line # <<>> /\ line[Len(line)] \in Whitespace
    THEN RStrip(SubSeq(line, 1, Len(line) - 1))
    ELSE line
Strip(line) == RStrip(LStrip(line))

\* Python values: None, a str, a bool, an int (its numeral)
None_ == [type |-> "NoneType", value |-> <<>>]
Str(text) == [type |-> "str", value |-> text]
Bool(b) == [type |-> "bool", value |-> IF b THEN <<"True">> ELSE <<"False">>]
Integer(numeral) == [type |-> "int", value |-> numeral]

\* the truth value of None or of a str
Truthy(x) == x.type = "str" /\ x.value # <<>>

\* the words that are numerals, and the spellings that lower() turns to "true"
Numerals == {"465", "25"}
TrueSpellings == {"true", "True", "TRUE"}

\* int(text) succeeds
IsNumber(text) == text # <<>> /\ \A i \in 1..Len(text) : text[i] \in Numerals

\* f"{name}={value}\n"
Setting(name, value) == <<name, "=">> \o value \o <<"\n">>

\* readlines() on what writelines() wrote: the text cut after each line break
RECURSIVE Lines(_)
Lines(text) ==
    IF text = <<>> THEN <<>>
    ELSE IF \E i \in 1..Len(text) : text[i] = "\n"
    THEN LET n == Least({i \in 1..Len(text) : text[i] = "\n"})
         IN  <<SubSeq(text, 1, n)>> \o Lines(SubSeq(text, n + 1, Len(text)))
    ELSE <<text>>

\* a .env file: absent, or its lines as readlines() returns them
NoEnvFile == [exists |-> FALSE, lines |-> <<>>]
EnvFile(lines) == [exists |-> TRUE, lines |-> lines]

\* the inner loop of clean_env_file: is_removed for one line
is_removed(line) ==
    \E i \in 1..Len(env_vars_to_clear) :
        StartsWith(Strip(line), <<env_vars_to_clear[i], "=">>)
KeptLine(line) == ~is_removed(line)

\* clean_env_file: the file afterwards (an absent file is left absent)
clean_env_file(f) ==
    IF ~f.exists THEN f ELSE EnvFile(SelectSeq(f.lines, KeptLine))

----------------------------------------------------------------------------
(* load_dotenv(path, override=True), as Config.load calls it               *)

\* a value worked out once and then used under a name
Once(value, Use(_)) == CHOOSE result \in {Use(v) : v \in {value}} : TRUE

RECURSIVE SkipBlanks(_)
SkipBlanks(s) == IF s # <<>> /\ Head(s) = " " THEN SkipBlanks(Tail(s)) ELSE s

\* the longest run of words a text begins with: the unquoted key
RECURSIVE WordRun(_)
WordRun(s) ==
    IF s # <<>> /\ Head(s) \notin Whitespace \cup {"=", "#"}
    THEN <<Head(s)>> \o WordRun(Tail(s))
    ELSE <<>>

\* the optional "export" and the blanks after it
AfterExport(s) ==
    IF Len(s) >= 2 /\ s[1] = "export" /\ s[2] = " "
    THEN SkipBlanks(Tail(s))
    ELSE s

\* an unquoted value: the rest of the line, without a comment that follows
\* a blank, and without the blanks at its end
UnquotedValue(s) ==
    LET raw == IF \E i \in 1..Len(s) : s[i] = "\n"
               THEN SubSeq(s, 1, Least({i \in 1..Len(s) : s[i] = "\n"}) - 1)
               ELSE s
        comment == {i \in 1..Len(raw) :
                        /\ raw[i] = " "
                        /\ \E j \in (i + 1)..Len(raw) :
                              /\ raw[j] = "#"
                              /\ \A k \in i..(j - 1) : raw[k] = " "}
    IN  RStrip(IF comment = {} THEN raw
               ELSE SubSeq(raw, 1, Least(comment) - 1))

\* what the parser makes of one line: no binding (a blank line, a comment,
\* a line it cannot parse), or a name bound to a str or to None
NoBinding == [bound |-> FALSE, key |-> <<>>, value |-> None_]
Binding(key, value) == [bound |-> TRUE, key |-> key, value |-> value]

parse_binding(line) ==
    LET s == AfterExport(LStrip(line))
        key == WordRun(s)
        after == SkipBlanks(SubSeq(s, Len(key) + 1, Len(s)))
    IN  IF key = <<>> THEN NoBinding
        ELSE IF after = <<>> \/ Head(after) \in {"\n", "#"}
        THEN Binding(key, None_)
        ELSE IF Head(after) = "="
        THEN Binding(key, Str(UnquotedValue(SkipBlanks(Tail(after)))))
        ELSE NoBinding

\* the dict of a file: each name with the value of its last binding
RECURSIVE dotenv_values(_)
dotenv_values(lines) ==
    IF lines = <<>> THEN [k \in {} |-> None_]
    ELSE Once(dotenv_values(SubSeq(lines, 1, Len(lines) - 1)), LAMBDA values :
         Once(parse_binding(lines[Len(lines)]), LAMBDA binding :
             IF ~binding.bound THEN values
             ELSE [k \in DOMAIN values \cup {binding.key} |->
                      IF k = binding.key THEN binding.value ELSE values[k]]))

\* the names a file gives a value to
Assigned(f) ==
    Once(dotenv_values(f.lines), LAMBDA values :
        {k \in DOMAIN values : values[k] # None_})

\* os.environ after load_dotenv(path, override=True), called if the file exists
load_dotenv(environ, f) ==
    IF ~f.exists THEN environ
    ELSE Once(dotenv_values(f.lines), LAMBDA values :
         Once(environ, LAMBDA before :
             LET set == {k \in DOMAIN values : values[k] # None_}
             IN  [k \in DOMAIN before \cup set |->
                     IF k \in set THEN values[k].value ELSE before[k]]))

----------------------------------------------------------------------------
(* The methods of Config. The configuration is the user's file, the .env   *)
(* of the working directory, os.environ and the attributes of the class;   *)
(* a method leaves a configuration and the exception it raised, if any     *)

Configured(user, local, environ, attributes) ==
    [user |-> user, local |-> local, environ |-> environ,
     attributes |-> attributes]

NotRaised == <<>>
Done(c, raised) == [config |-> c, raised |-> raised]

\* os.getenv(name, default)
getenv(environ, name, default) ==
    IF <<name>> \in DOMAIN environ THEN Str(environ[<<name>>]) ELSE default

\* the defaults of Config.load
Default(name) ==
    CASE name = "LLM_PROVIDER" -> Str(<<"deepseek">>)
      [] name = "LLM_STREAM" -> Str(<<"True">>)
      [] name = "DEEPSEEK_BASE_URL" -> Str(<<"https://api.deepseek.com">>)
      [] name = "DEEPSEEK_MODEL" -> Str(<<"deepseek-chat">>)
      [] name = "OPENAI_MODEL" -> Str(<<"gpt-3.5-turbo">>)
      [] OTHER -> None_

\* the attributes Config.load assigns after the port, which int() may refuse
AfterPort == {"EMAIL_SMTP_PORT", "EMAIL_SENDER", "EMAIL_PASSWORD", "EMAIL_RECEIVER"}

\* the assignments of Config.load, os.environ being as load_dotenv left it
Assignments(c, environ, port) ==
    LET refused == Truthy(port) /\ ~IsNumber(port.value)
        read(n) ==
            IF n = "LLM_STREAM"
            THEN Bool(getenv(environ, n, Default(n)).value
                          \in {<<t>> : t \in TrueSpellings})
            ELSE IF n = "EMAIL_SMTP_PORT"
            THEN IF Truthy(port) THEN Integer(port.value) ELSE Integer(<<"465">>)
            ELSE getenv(environ, n, Default(n))
    IN  Done(Configured(c.user, c.local, environ,
                        [n \in AttributeNames |->
                            IF refused /\ n \in AfterPort
                            THEN c.attributes[n] ELSE read(n)]),
             IF refused THEN <<"ValueError", "int">> ELSE NotRaised)

\* Config.load
load(c) ==
    Once(c, LAMBDA before :
    Once(load_dotenv(load_dotenv(before.environ, before.local), before.user),
         LAMBDA environ :
             Assignments(before, environ,
                         getenv(environ, "EMAIL_SMTP_PORT", None_))))

\* Config.validate
validate(c) ==
    Once(load(c), LAMBDA loaded :
    LET a == loaded.config.attributes
        missing ==
            (IF ~Truthy(a["TUSHARE_TOKEN"]) THEN <<"TUSHARE_TOKEN">> ELSE <<>>)
            \o (IF a["LLM_PROVIDER"] = Str(<<"deepseek">>)
                   /\ ~Truthy(a["DEEPSEEK_API_KEY"])
                THEN <<"DEEPSEEK_API_KEY">> ELSE <<>>)
    IN  IF loaded.raised # NotRaised THEN loaded
        ELSE Done(loaded.config,
                  IF missing # <<>>
                  THEN <<"ValueError", "Missing environment variables: ">>
                           \o missing
                  ELSE NotRaised))

\* os.environ[name] = value for each of the settings, in their order
Exported(environ, settings) ==
    LET names == {<<settings[i][1]>> : i \in 1..Len(settings)}
    IN  [k \in DOMAIN environ \cup names |->
            IF k \in names
            THEN settings[CHOOSE i \in 1..Len(settings) :
                              <<settings[i][1]>> = k][2]
            ELSE environ[k]]

\* the lines a line of the file is filtered out by in update_email_config
EmailComment == <<"#", " ", "Email", " ", "Configuration">>
KeptByEmail(line) ==
    ~ \/ (Strip(line) # <<>> /\ Strip(line)[1] \in EmailKeys)
      \/ StartsWith(Strip(line), EmailComment)

\* Config.update_email_config
update_email_config(c, server, port, sender, password, receiver) ==
    LET lines == IF c.user.exists THEN c.user.lines ELSE <<>>
        kept == SelectSeq(lines, KeptByEmail)
        new_lines ==
            IF kept # <<>>
               /\ kept[Len(kept)][Len(kept[Len(kept)])] # "\n"
            THEN Append(kept, <<"\n">>) ELSE kept
        settings == << <<"EMAIL_SMTP_SERVER", server>>,
                       <<"EMAIL_SMTP_PORT", port>>,
                       <<"EMAIL_SENDER", sender>>,
                       <<"EMAIL_PASSWORD", password>>,
                       <<"EMAIL_RECEIVER", receiver>> >>
        written == new_lines \o << <<"\n">> \o EmailComment \o <<"\n">> >>
                   \o [i \in 1..Len(settings) |->
                          Setting(settings[i][1], settings[i][2])]
    IN  load(Configured(EnvFile(Lines(Flatten(written))), c.local,
                        Exported(c.environ, settings), c.attributes))

\* Config.update_core_config
update_core_config(c, tushare_token, provider, deepseek_key, deepseek_base, deepseek_model, openai_key, openai_base, openai_model) ==
    LET lines == IF c.user.exists THEN c.user.lines ELSE <<>>
        settings ==
            << <<"TUSHARE_TOKEN", tushare_token>>,
               <<"LLM_PROVIDER", provider>> >>
            \o (IF provider = <<"deepseek">>
                THEN << <<"DEEPSEEK_API_KEY", deepseek_key>>,
                        <<"DEEPSEEK_BASE_URL", deepseek_base>>,
                        <<"DEEPSEEK_MODEL", deepseek_model>> >>
                ELSE << <<"OPENAI_API_KEY", openai_key>>,
                        <<"OPENAI_BASE_URL", openai_base>>,
                        <<"OPENAI_MODEL", openai_model>> >>)
        written == SelectSeq(lines, KeptLine)
                   \o [i \in 1..Len(settings) |->
                          Setting(settings[i][1], settings[i][2])]
    IN  load(Configured(EnvFile(Lines(Flatten(written))), c.local,
                        Exported(c.environ, settings), c.attributes))

\* input(...).strip() or default
OrDefault(answer, default) ==
    IF Strip(answer) # <<>> THEN Strip(answer) ELSE default

\* the base URL and the default model of the providers 2 to 7 of the wizard
Preset(choice) ==
    CASE choice = <<"2">> -> <<"https://api.moonshot.cn/v1", "moonshot-v1-8k">>
      [] choice = <<"3">> -> <<"https://open.bigmodel.cn/api/paas/v4", "glm-4">>
      [] choice = <<"4">> -> <<"https://api.lingyiwanwu.com/v1", "yi-34b-chat-0205">>
      [] choice = <<"5">> -> <<"https://dashscope.aliyuncs.com/compatible-mode/v1",
                               "qwen-turbo">>
      [] choice = <<"6">> -> <<"https://api.siliconflow.cn/v1",
                               "deepseek-ai/DeepSeek-V3">>
      [] choice = <<"7">> -> <<"https://openrouter.ai/api/v1",
                               "google/gemini-2.0-flash-exp:free">>

\* Config.setup: the answers typed are the token, the choice, and the
\* answers to the questions of the branch taken, in the order asked
setup(c, token, chosen, first, second, third) ==
    LET choice == Strip(chosen)
        deepseek_base == <<"https://api.deepseek.com">>
        deepseek_model == <<"deepseek-chat">>
    IN  IF choice = <<"1">> \/ choice = <<>>
        THEN update_core_config(c, Strip(token), <<"deepseek">>, Strip(first),
                                deepseek_base, deepseek_model, <<>>, <<>>, <<>>)
        ELSE IF choice \in {<<"2">>, <<"3">>, <<"4">>, <<"5">>, <<"6">>, <<"7">>}
        THEN update_core_config(c, Strip(token),
                                IF choice = <<"7">> THEN <<"openrouter">>
                                ELSE <<"openai">>,
                                <<>>, deepseek_base, deepseek_model,
                                Strip(first), <<Preset(choice)[1]>>,
                                OrDefault(second, <<Preset(choice)[2]>>))
        ELSE IF choice = <<"9">>
        THEN update_core_config(c, Strip(token), <<"local">>,
                                <<>>, deepseek_base, deepseek_model,
                                <<"ollama">>,
                                OrDefault(first, <<"http://localhost:11434/v1">>),
                                OrDefault(second, <<"llama3">>))
        ELSE update_core_config(c, Strip(token), <<"openai">>,
                                <<>>, deepseek_base, deepseek_model,
                                Strip(first), Strip(second), Strip(third))

\* Config.setup_email
setup_email(c, server, port, sender, password, receiver) ==
    update_email_config(c, Strip(server), OrDefault(port, <<"465">>),
                        Strip(sender), Strip(password),
                        OrDefault(receiver, Strip(sender)))

\* Config.clear
clear(c) ==
    Done(Configured(clean_env_file(c.user), clean_env_file(c.local),
                    [k \in DOMAIN c.environ \ {<<n>> : n \in CoreKeys} |->
                        c.environ[k]],
                    [n \in AttributeNames |->
                        IF n \in CoreKeys THEN None_ ELSE c.attributes[n]]),
         NotRaised)

\* Config as the class statement leaves it: every attribute None but
\* LLM_STREAM
Unloaded(user, local, shell) ==
    Configured(user, local, shell,
               [n \in AttributeNames |->
                   IF n = "LLM_STREAM" THEN Bool(TRUE) ELSE None_])

\* the configuration once the module is imported ("Config.load()")
Configuration(user, local, shell) == load(Unloaded(user, local, shell)).config

\* Config.LLM_STREAM, which run() reads before each chat call
LLM_STREAM(c) == c.attributes["LLM_STREAM"] = Bool(TRUE)

\* the lines the files are made of
EnvLines ==
    { <<"TUSHARE_TOKEN", "=", "v", "\n">>,
      <<"TUSHARE_TOKEN", " ", "=", "v", "\n">>,
      <<" ", "OPENAI_MODEL", "=", "v", "\n">>,
      <<"EMAIL_SENDER", "=", "v", "\n">>,
      <<"LLM_STREAM", "=", "true">>,
      <<"LLM_STREAM", "=", "false", "\n">>,
      <<"#", " ", "TUSHARE_TOKEN", "=", "v", "\n">>,
      <<"#", " ", "Email", " ", "Configuration", "\n">>,
      <<"\n">> }

\* readlines() ends every line but the last with its line break
WellBroken(lines) ==
    \A i \in 1..Len(lines) - 1 : lines[i][Len(lines[i])] = "\n"

EnvFiles ==
    {NoEnvFile} \cup
    {EnvFile(ls) : ls \in {s \in UNION {[1..n -> EnvLines] : n \in 0..MaxLines} :
                              WellBroken(s)}}
LocalEnvFiles ==
    {NoEnvFile, EnvFile(<< <<"export", " ", "OPENAI_API_KEY", "=", "v", "\n">> >>)}
NoShell == [k \in {} |-> <<>>]
Shells == {NoShell, [k \in {<<"EMAIL_SENDER">>} |-> <<"v">>]}

\* what is typed at a prompt
Answers == {<<>>, <<"v">>}

\* the configuration main() starts a session of the agent with: FinAgent()
\* raises for want of the credentials, Config.setup() asks for them (choice 1,
\* DeepSeek) and writes them to the user's file u, and FinAgent() returns
Session(u) ==
    setup(Configuration(u, NoEnvFile, NoShell),
          <<"v">>, <<"1">>, <<"v">>, <<>>, <<>>).config
Configurations ==
    {Session(u) :
        u \in {NoEnvFile, EnvFile(<< <<"LLM_STREAM", "=", "false", "\n">> >>)}}

\* the user's file after the DeepSeek key has been taken out of its line
Emptied(f) ==
    EnvFile([i \in 1..Len(f.lines) |->
                IF StartsWith(f.lines[i], <<"DEEPSEEK_API_KEY", "=">>)
                THEN <<"DEEPSEEK_API_KEY", "=", "\n">>
                ELSE f.lines[i]])

\* the user's file as the program finds it when it loads the configuration
\* again within a session: as a session starts with it, or edited since
FilesFound ==
    {c.user : c \in Configurations} \cup {Emptied(Session(NoEnvFile).user)}

----------------------------------------------------------------------------
(* The session: FinAgent() followed by run() calls from run_chat_loop      *)

\* locals of run() once it has returned
Idle ==
    /\ pc' = "idle"
    /\ step' = 0
    /\ message' = NoMessage
    /\ idx' = 0
    /\ rest' = <<>>
    /\ term' = NoTerm
    /\ full_content' = <<>>
    /\ buffer' = <<>>
    /\ thinking_state' = FALSE
    /\ out' = <<>>

\* the two profile summaries of the session
Profiles == {"cautious", "bold"}

Init ==
    /\ profile = "cautious"
    /\ history = InitHistory(profile)
    /\ llm = 0
    /\ pc = "idle"
    /\ ret = Never
    /\ step = 0
    /\ message = NoMessage
    /\ rest = <<>>
    /\ term = NoTerm
    /\ full_content = <<>>
    /\ buffer = <<>>
    /\ thinking_state = FALSE
    /\ out = <<>>
    /\ idx = 0
    /\ chats = 0
    /\ reasoning = {}
    /\ base = history
    /\ op = Op("init", "-")
    /\ file = NoFile
    /\ sent = <<>>
    /\ holdings = EmptyHoldings
    /\ portfolio_file = NoPortfolioFile
    /\ call = NoCall
    /\ env \in Configurations
    /\ stream_mode = LLM_STREAM(env)

\* the reasoning texts shown once a pump that wrote o has ended
Shown(r, o) == IF Hidden(o) = <<>> THEN r ELSE r \cup {Hidden(o)}

\* the user profile changes between two turns
ProfileChanged ==
    /\ pc = "idle"
    /\ profile' \in Profiles \ {profile}
    /\ UNCHANGED <<history, llm, stream_mode, pc, ret, step, message, idx,
                   chats, reasoning, base>>
    /\ UNCHANGED streamVars
    /\ UNCHANGED <<op, file, sent>>
    /\ UNCHANGED sideVars

\* run(user_input) up to the first "while True"
RunStart(user_input) ==
    /\ pc = "idle"
    /\ chats < MaxChats
    /\ base' = history
    /\ history' = Append(RefreshSystem(history, profile), UserMsg(user_input))
    /\ step' = 0
    /\ pc' = "chat"
    /\ ret' = Running
    /\ UNCHANGED <<llm, profile, stream_mode, message, idx, chats, reasoning>>
    /\ UNCHANGED streamVars
    /\ op' = Op("run", "-")
    /\ UNCHANGED <<file, sent>>
    /\ UNCHANGED sideVars

\* self.llm.chat(self.history, ...) raises: "except Exception" returns the error
ChatRaises ==
    /\ pc = "chat"
    /\ chats' = chats + 1
    /\ ret' = Return("error", ErrorString, pc)
    /\ Idle
    /\ UNCHANGED <<history, llm, profile, stream_mode, reasoning, base>>
    /\ sent' = Passed(history)
    /\ UNCHANGED sideVars
    /\ UNCHANGED <<op, file>>

\* KeyboardInterrupt while blocked in the chat call: the outer handler
ChatInterrupted ==
    /\ pc = "chat"
    /\ chats' = chats + 1
    /\ ret' = Return("interrupted", EmptyString, pc)
    /\ Idle
    /\ UNCHANGED <<history, llm, profile, stream_mode, reasoning, base>>
    /\ sent' = Passed(history)
    /\ UNCHANGED sideVars
    /\ UNCHANGED <<op, file>>

\* the chat call returns a complete message (not a generator)
ChatReturnsMessage(m) ==
    /\ pc = "chat"
    /\ m.tool_calls # <<>> => chats + 1 < MaxChats
    /\ chats' = chats + 1
    /\ step' = step + 1
    /\ message' = m
    /\ pc' = "decide"
    /\ out' = <<>>
    /\ UNCHANGED <<history, llm, profile, stream_mode, ret, idx, reasoning, base>>
    /\ UNCHANGED <<rest, term, full_content, buffer, thinking_state>>
    /\ sent' = Passed(history)
    /\ UNCHANGED sideVars
    /\ UNCHANGED <<op, file>>

\* the chat call returns a generator that will yield text, cut into content
\* chunks, and then the terminal chunk t (if any)
ChatReturnsStream(text, t) ==
    /\ pc = "chat"
    /\ stream_mode
    /\ t.msg.tool_calls # <<>> => chats + 1 < MaxChats
    /\ chats' = chats + 1
    /\ step' = step + 1
    /\ message' = NoMessage
    /\ rest' = text
    /\ term' = t
    /\ full_content' = <<>>
    /\ buffer' = <<>>
    /\ thinking_state' = FALSE
    /\ out' = <<>>
    /\ pc' = "pump"
    /\ UNCHANGED <<history, llm, profile, stream_mode, ret, idx, reasoning, base>>
    /\ sent' = Passed(history)
    /\ UNCHANGED sideVars
    /\ UNCHANGED <<op, file>>

\* one iteration of "for chunk in response" on a content chunk: the next k
\* characters of the stream
PumpContent(k) ==
    /\ pc = "pump"
    /\ rest # <<>>
    /\ LET content == SubSeq(rest, 1, k)
           d == Feed(buffer, thinking_state, out, content)
       IN /\ full_content' = full_content \o content
          /\ buffer' = d.buffer
          /\ thinking_state' = d.thinking_state
          /\ out' = d.out
    /\ rest' = SubSeq(rest, k + 1, Len(rest))
    /\ UNCHANGED <<history, llm, profile, stream_mode, pc, ret, step, message,
                   term, idx, chats, reasoning, base>>
    /\ UNCHANGED <<op, file, sent>>
    /\ UNCHANGED sideVars

\* one iteration on the terminal chunk: message = chunk['response']
PumpResponse ==
    /\ pc = "pump"
    /\ rest = <<>>
    /\ term.present
    /\ message' = term.msg
    /\ term' = NoTerm
    /\ UNCHANGED <<history, llm, profile, stream_mode, pc, ret, step, rest,
                   full_content, buffer, thinking_state, out, idx, chats, reasoning, base>>
    /\ UNCHANGED <<op, file, sent>>
    /\ UNCHANGED sideVars

\* the generator is exhausted: print the remaining buffer
PumpEnd ==
    /\ pc = "pump"
    /\ rest = <<>>
    /\ ~term.present
    /\ out' = Flush(buffer, thinking_state, out).out
    /\ reasoning' = Shown(reasoning, out')
    /\ pc' = "decide"
    /\ UNCHANGED <<history, llm, profile, stream_mode, ret, step, message, rest,
                   term, full_content, buffer, thinking_state, idx, chats, base>>
    /\ UNCHANGED <<op, file, sent>>
    /\ UNCHANGED sideVars

\* the generator raises while it is pumped: "except Exception" returns the error
PumpRaises ==
    /\ pc = "pump"
    /\ reasoning' = Shown(reasoning, out)
    /\ ret' = Return("error", ErrorString, pc)
    /\ Idle
    /\ UNCHANGED <<history, llm, profile, stream_mode, chats, base>>
    /\ UNCHANGED <<op, file, sent>>
    /\ UNCHANGED sideVars

\* the interrupted stream dropped: the accumulated text is never committed
PumpInterruptedNeverCommits ==
    /\ pc = "pump"
    /\ history' = history
    /\ reasoning' = Shown(reasoning, out)
    /\ ret' = Return("interrupted", EmptyString, pc)
    /\ Idle
    /\ UNCHANGED <<llm, profile, stream_mode, chats, base>>
    /\ UNCHANGED <<op, file, sent>>
    /\ UNCHANGED sideVars
\* the interrupted stream committed without the "if full_content" test
PumpInterruptedAlwaysCommits ==
    /\ pc = "pump"
    /\ history' = Append(history, PartialMsg(full_content))
    /\ reasoning' = Shown(reasoning, out)
    /\ ret' = Return("interrupted", EmptyString, pc)
    /\ Idle
    /\ UNCHANGED <<llm, profile, stream_mode, chats, base>>
    /\ UNCHANGED <<op, file, sent>>
    /\ UNCHANGED sideVars
\* KeyboardInterrupt while waiting for the next chunk: stream_interrupted
PumpInterrupted ==
    /\ pc = "pump"
    /\ history' = IF full_content # <<>>
                  THEN Append(history, PartialMsg(full_content))
                  ELSE history
    /\ reasoning' = Shown(reasoning, out)
    /\ ret' = Return("interrupted", EmptyString, pc)
    /\ Idle
    /\ UNCHANGED <<llm, profile, stream_mode, chats, base>>
    /\ UNCHANGED <<op, file, sent>>
    /\ UNCHANGED sideVars

\* "message.tool_calls" on message = None: AttributeError, raised outside
\* the inner try and not a KeyboardInterrupt, so it leaves run()
DecideNoMessage ==
    /\ pc = "decide"
    /\ message = NoMessage
    /\ ret' = Escapes(pc)
    /\ Idle
    /\ UNCHANGED <<history, llm, profile, stream_mode, chats, reasoning, base>>
    /\ UNCHANGED <<op, file, sent>>
    /\ UNCHANGED sideVars

\* "if not message.tool_calls": the final answer
DecideFinal ==
    /\ pc = "decide"
    /\ message # NoMessage
    /\ message.tool_calls = <<>>
    /\ history' = Append(history, ToDict(message))
    /\ ret' = Return("final", IF stream_mode THEN EmptyString ELSE message.content, pc)
    /\ Idle
    /\ UNCHANGED <<llm, profile, stream_mode, chats, reasoning, base>>
    /\ UNCHANGED <<op, file, sent>>
    /\ UNCHANGED sideVars

\* the assistant message with tool_calls is appended, the for loop starts
DecideTools ==
    /\ pc = "decide"
    /\ message # NoMessage
    /\ message.tool_calls # <<>>
    /\ history' = Append(history, ToDict(message))
    /\ idx' = 1
    /\ pc' = "dispatch"
    /\ UNCHANGED <<llm, profile, stream_mode, ret, step, message, chats, reasoning, base>>
    /\ UNCHANGED streamVars
    /\ UNCHANGED <<op, file, sent>>
    /\ UNCHANGED sideVars

\* the calls taken last first
CurrentCallReversed == message.tool_calls[Len(message.tool_calls) - idx + 1]
\* the tool call the for loop is at
CurrentCall == message.tool_calls[idx]

\* the configuration after a tool has run. After reset_core_config,
\* LLMFactory.create_llm() builds the client of the session's provider,
\* DeepSeekClient(), which calls Config.validate(): the files are loaded
\* again as they are found, rebuilt tells whether the client was built, and
\* run() reads Config.LLM_STREAM before its next chat call. Any other tool
\* leaves the configuration alone
Reconfigured(rebuilt) ==
    IF CurrentCall.name = "reset_core_config"
    THEN \E found \in FilesFound :
            \E done \in {validate(Configured(found, env.local, env.environ,
                                              env.attributes))} :
                /\ rebuilt = (done.raised = NotRaised)
                /\ env' = done.config
                /\ stream_mode' = LLM_STREAM(done.config)
    ELSE UNCHANGED <<env, stream_mode>>

\* the for loop left for the next LLM call after its first iteration
ToolReturnsThenChat(rebuilt) ==
    /\ pc = "dispatch"
    /\ LET r == execute_tool_call(CurrentCall.name, CurrentCall.arguments)
       IN /\ ~r.raised
          /\ history' = Append(history, ToolMsg(CurrentCall.id, r.result))
    /\ IF CurrentCall.name = "reset_core_config" /\ rebuilt
       THEN llm < MaxLlm /\ llm' = llm + 1
       ELSE llm' = llm
    /\ pc' = "chat" /\ idx' = 0 /\ message' = NoMessage
    /\ Reconfigured(rebuilt)
    /\ UNCHANGED <<profile, ret, step, chats, reasoning, base>>
    /\ UNCHANGED streamVars
    /\ UNCHANGED <<op, file, sent>>
    /\ UNCHANGED <<holdings, portfolio_file, call>>
\* a failed LLMFactory.create_llm() left uncaught: it leaves run()
ToolReturnsRebuildFatal(rebuilt) ==
    /\ pc = "dispatch"
    /\ ~execute_tool_call(CurrentCall.name, CurrentCall.arguments).raised
    /\ IF CurrentCall.name = "reset_core_config" /\ ~rebuilt
       THEN /\ ret' = Escapes(pc)
            /\ Idle
            /\ Reconfigured(rebuilt)
            /\ UNCHANGED <<history, llm, profile, chats, reasoning, base>>
       ELSE /\ history' = Append(history,
                 ToolMsg(CurrentCall.id,
                         execute_tool_call(CurrentCall.name, CurrentCall.arguments).result))
            /\ IF CurrentCall.name = "reset_core_config"
               THEN llm < MaxLlm /\ llm' = llm + 1
               ELSE llm' = llm
            /\ IF idx = Len(message.tool_calls)
               THEN pc' = "chat" /\ idx' = 0 /\ message' = NoMessage
               ELSE pc' = "dispatch" /\ idx' = idx + 1 /\ message' = message
            /\ Reconfigured(rebuilt)
            /\ UNCHANGED <<profile, ret, step, chats, reasoning, base>>
            /\ UNCHANGED streamVars
    /\ UNCHANGED <<op, file, sent>>
    /\ UNCHANGED <<holdings, portfolio_file, call>>
\* one iteration of "for tool_call in message.tool_calls" in which
\* execute_tool_call returns; rebuilt tells whether LLMFactory.create_llm()
\* succeeds when the tool is reset_core_config
ToolReturns(rebuilt) ==
    /\ pc = "dispatch"
    /\ LET r == execute_tool_call(CurrentCall.name, CurrentCall.arguments)
       IN /\ ~r.raised
          /\ history' = Append(history, ToolMsg(CurrentCall.id, r.result))
    /\ IF CurrentCall.name = "reset_core_config" /\ rebuilt
       THEN llm < MaxLlm /\ llm' = llm + 1
       ELSE llm' = llm
    /\ IF idx = Len(message.tool_calls)
       THEN pc' = "chat" /\ idx' = 0 /\ message' = NoMessage
       ELSE pc' = "dispatch" /\ idx' = idx + 1 /\ message' = message
    /\ Reconfigured(rebuilt)
    /\ UNCHANGED <<profile, ret, step, chats, reasoning, base>>
    /\ UNCHANGED streamVars
    /\ UNCHANGED <<op, file, sent>>
    /\ UNCHANGED <<holdings, portfolio_file, call>>

\* execute_tool_call raises (TypeError): nothing in run() catches it
ToolRaises ==
    /\ pc = "dispatch"
    /\ execute_tool_call(CurrentCall.name, CurrentCall.arguments).raised
    /\ ret' = Escapes(pc)
    /\ Idle
    /\ UNCHANGED <<history, llm, profile, stream_mode, chats, reasoning, base>>
    /\ UNCHANGED <<op, file, sent>>
    /\ UNCHANGED sideVars

\* KeyboardInterrupt while a tool executes: the outer handler
ToolInterrupted ==
    /\ pc = "dispatch"
    /\ ret' = Return("interrupted", EmptyString, pc)
    /\ Idle
    /\ UNCHANGED <<history, llm, profile, stream_mode, chats, reasoning, base>>
    /\ UNCHANGED <<op, file, sent>>
    /\ UNCHANGED sideVars

\* the locals of run() and the session counters, untouched between turns
runVars == <<llm, stream_mode, pc, step, message, idx, chats, reasoning>>

\* a call other than run() was made on the agent: the record of the last
\* run() (its result, the history it started from, what it sent) is over
Forgotten ==
    /\ ret' = Never
    /\ base' = history'
    /\ sent' = <<>>
    /\ UNCHANGED sideVars

\* clear_history() between two turns, keeping the prompt as it is
ClearHistoryKeepsPrompt ==
    /\ pc = "idle"
    /\ history' = SubSeq(history, 1, 1)
    /\ op' = Op("clear", "-")
    /\ UNCHANGED <<profile, file>>
    /\ Forgotten
    /\ UNCHANGED runVars
    /\ UNCHANGED streamVars
\* clear_history() between two turns
ClearHistory ==
    /\ pc = "idle"
    /\ history' = InitHistory(profile)
    /\ op' = Op("clear", "-")
    /\ UNCHANGED <<profile, file>>
    /\ Forgotten
    /\ UNCHANGED runVars
    /\ UNCHANGED streamVars

\* save_session() between two turns: "Session saved" or "Error saving session"
SaveSession ==
    /\ pc = "idle"
    /\ file' = Dump(history)
    /\ op' = Op("save", IF file'.state = "valid" THEN "saved" ELSE "error")
    /\ UNCHANGED <<history, profile>>
    /\ Forgotten
    /\ UNCHANGED runVars
    /\ UNCHANGED streamVars

\* load_session() starting afresh when nothing could be loaded
LoadSessionResets ==
    /\ pc = "idle"
    /\ history' = IF file.state = "valid" THEN Loaded(file, profile)
                  ELSE InitHistory(profile)
    /\ op' = Op("load", CASE file.state = "absent" -> "none"
                          [] file.state = "valid" -> "loaded"
                          [] OTHER -> "error")
    /\ UNCHANGED <<profile, file>>
    /\ Forgotten
    /\ UNCHANGED runVars
    /\ UNCHANGED streamVars
\* load_session() between two turns: "No saved session found", "Session
\* loaded" or "Error loading session" (json.load raised: history is kept)
LoadSession ==
    /\ pc = "idle"
    /\ history' = IF file.state = "valid" THEN Loaded(file, profile) ELSE history
    /\ op' = Op("load", CASE file.state = "absent" -> "none"
                          [] file.state = "valid" -> "loaded"
                          [] OTHER -> "error")
    /\ UNCHANGED <<profile, file>>
    /\ Forgotten
    /\ UNCHANGED runVars
    /\ UNCHANGED streamVars

Next ==
    \/ ProfileChanged
    \/ \E u \in UserInputs : RunStart(u)
    \/ ChatRaises
    \/ ChatInterrupted
    \/ \E m \in FinalReplies \cup ToolReplies : ChatReturnsMessage(m)
    \/ \E text \in AgentTexts :
          \E t \in {NoTerm} \cup {Term(m) : m \in StreamReplies} :
             ChatReturnsStream(text, t)
    \/ PumpContent(Min(Len(rest), MaxChunk))
    \/ PumpResponse
    \/ PumpEnd
    \/ PumpRaises
    \/ PumpInterrupted
    \/ DecideNoMessage
    \/ DecideFinal
    \/ DecideTools
    \/ \E rebuilt \in BOOLEAN : ToolReturns(rebuilt)
    \/ ToolRaises
    \/ ToolInterrupted

Spec == Init /\ [][Next]_vars

----------------------------------------------------------------------------
(* The session with its store: run() calls interleaved with clear_history, *)
(* save_session and load_session, the LLM replying from a smaller set      *)

RaisingCall == [name |-> "get_daily_price", arguments |-> ArgsEmpty]
StoreReplies == {Reply("model_dump", Ok, <<>>),
                 Reply("model_dump", <<>>, <<ToolCall("a", PlainCall)>>),
                 Reply("object", <<>>, <<ToolCall("a", PlainCall)>>),
                 Reply("model_dump", <<>>, <<ToolCall("a", RaisingCall)>>)}
StoreTerms == {NoTerm, Term(Reply("object", Ok, <<>>))}

NextStore ==
    \/ ProfileChanged
    \/ ClearHistory
    \/ SaveSession
    \/ LoadSession
    \/ \E u \in UserInputs : RunStart(u)
    \/ ChatRaises
    \/ ChatInterrupted
    \/ \E m \in StoreReplies : ChatReturnsMessage(m)
    \/ \E t \in StoreTerms : ChatReturnsStream(ThinkThenOk, t)
    \/ PumpContent(Min(Len(rest), MaxChunk))
    \/ PumpResponse
    \/ PumpEnd
    \/ PumpRaises
    \/ PumpInterrupted
    \/ DecideNoMessage
    \/ DecideFinal
    \/ DecideTools
    \/ ToolReturns(FALSE)
    \/ ToolRaises
    \/ ToolInterrupted

SpecStore == Init /\ [][NextStore]_vars

----------------------------------------------------------------------------
(* The stream decoder alone: one streamed response whose text is any       *)
(* concatenation of up to MaxTokens tokens, cut into chunks at any places  *)

InitDemux ==
    /\ profile = "cautious"
    /\ history = Append(InitHistory(profile), UserMsg("q"))
    /\ llm = 0
    /\ stream_mode = TRUE
    /\ pc = "pump"
    /\ ret = Running
    /\ step = 1
    /\ message = NoMessage
    /\ rest \in DemuxTexts
    /\ term = NoTerm
    /\ full_content = <<>>
    /\ buffer = <<>>
    /\ thinking_state = FALSE
    /\ out = <<>>
    /\ idx = 0
    /\ chats = 1
    /\ reasoning = {}
    /\ base = InitHistory(profile)
    /\ op = Op("run", "-")
    /\ file = NoFile
    /\ sent = history
    /\ holdings = EmptyHoldings
    /\ portfolio_file = NoPortfolioFile
    /\ call = NoCall
    /\ env = Session(NoEnvFile)

NextDemux ==
    \/ \E k \in 0..Len(rest) : PumpContent(k)
    \/ PumpEnd

SpecDemux == InitDemux /\ [][NextDemux]_vars

----------------------------------------------------------------------------
(* The portfolio alone: a PortfolioManager on an absent portfolio.json and *)
(* the calls made on it                                                    *)

agentVars == <<history, llm, profile, stream_mode, pc, ret, step, message,
               idx, chats, reasoning, base, op, file, sent>>

\* a method's outcome taken over: the holdings, and the file if it saved
Settle(o) ==
    /\ holdings' = o.holdings
    /\ portfolio_file' = IF o.saved THEN PortfolioFile(o.holdings)
                         ELSE portfolio_file

AddPosition(ts_code, amount, price) ==
    /\ Len(holdings.history) < MaxTrades
    /\ Settle(add_position(holdings, ts_code, amount, price))
    /\ call' = Call("add_position", <<ts_code, amount, price>>,
                    add_position(holdings, ts_code, amount, price).returned)
    /\ UNCHANGED <<agentVars, streamVars, env>>

RemovePosition(ts_code, amount, price) ==
    /\ Len(holdings.history) < MaxTrades
    /\ Settle(remove_position(holdings, ts_code, amount, price))
    /\ call' = Call("remove_position", <<ts_code, amount, price>>,
                    remove_position(holdings, ts_code, amount, price).returned)
    /\ UNCHANGED <<agentVars, streamVars, env>>

ClearPortfolio ==
    /\ Settle(clear_portfolio(holdings))
    /\ call' = Call("clear_portfolio", <<>>, clear_portfolio(holdings).returned)
    /\ UNCHANGED <<agentVars, streamVars, env>>

\* a new PortfolioManager on the same file (the next start of the program)
Reopen ==
    /\ holdings' = load_portfolio(portfolio_file)
    /\ call' = Call("__init__", <<>>, <<>>)
    /\ UNCHANGED <<agentVars, streamVars, env, portfolio_file>>

NextPortfolio ==
    \/ \E c \in Codes, a \in Amounts, p \in Prices : AddPosition(c, a, p)
    \/ \E c \in Codes, a \in Amounts, p \in Prices : RemovePosition(c, a, p)
    \/ ClearPortfolio
    \/ Reopen

\* the streaming switch is of no concern to the portfolio
InitPortfolio == Init /\ stream_mode = TRUE

SpecPortfolio == InitPortfolio /\ [][NextPortfolio]_vars

----------------------------------------------------------------------------
(* The configuration alone: the public methods of Config, called on every  *)
(* pair of files of up to MaxLines lines                                   *)

InitConfig ==
    /\ profile = "cautious"
    /\ history = InitHistory(profile)
    /\ llm = 0
    /\ pc = "idle"
    /\ ret = Never
    /\ step = 0
    /\ message = NoMessage
    /\ rest = <<>>
    /\ term = NoTerm
    /\ full_content = <<>>
    /\ buffer = <<>>
    /\ thinking_state = FALSE
    /\ out = <<>>
    /\ idx = 0
    /\ chats = 0
    /\ reasoning = {}
    /\ base = history
    /\ op = Op("init", "-")
    /\ file = NoFile
    /\ sent = <<>>
    /\ holdings = EmptyHoldings
    /\ portfolio_file = NoPortfolioFile
    /\ call = NoCall
    /\ env \in {Configuration(u, l, s) :
                    u \in EnvFiles, l \in LocalEnvFiles, s \in Shells}
    /\ stream_mode = LLM_STREAM(env)

\* a method of Config has run: the configuration it leaves, and what it raised
Configure(name, args, done) ==
    /\ env' = done.config
    /\ stream_mode' = LLM_STREAM(done.config)
    /\ call' = Call(name, args, done.raised)
    /\ UNCHANGED <<history, llm, profile, pc, ret, step, message, idx, chats,
                   reasoning, base, op, file, sent>>
    /\ UNCHANGED <<streamVars, holdings, portfolio_file>>

\* the user's file is short enough for the program to add to it once more
Short == Len(env.user.lines) <= MaxFile

ConfigLoad ==
    \E done \in {load(env)} : Configure("load", <<>>, done)

ConfigValidate ==
    \E done \in {validate(env)} : Configure("validate", <<>>, done)

ConfigClear ==
    \E done \in {clear(env)} : Configure("clear", <<>>, done)

UpdateCoreConfig(tushare_token, provider, key) ==
    /\ Short
    /\ \E done \in {update_core_config(env, tushare_token, provider, key,
                                        <<"v">>, <<"v">>, key, <<"v">>, <<"v">>)} :
          Configure("update_core_config", <<tushare_token, provider, key>>, done)

UpdateEmailConfig(server, port) ==
    /\ Short
    /\ \E done \in {update_email_config(env, server, port,
                                         <<"v">>, <<"v">>, <<"v">>)} :
          Configure("update_email_config", <<server, port>>, done)

Setup(token, chosen, first, second, third) ==
    /\ Short
    /\ \E done \in {setup(env, token, chosen, first, second, third)} :
          Configure("setup", <<token, chosen, first, second, third>>, done)

SetupEmail(server, port, sender, receiver) ==
    /\ Short
    /\ \E done \in {setup_email(env, server, port, sender, <<"v">>, receiver)} :
          Configure("setup_email", <<server, port, sender, receiver>>, done)

\* the choices typed at the wizard, and the ports
Choices == {<<>>, <<"1">>, <<"2">>, <<"7">>, <<"8">>, <<"9">>}
Ports == {<<>>, <<"25">>, <<"v">>}

NextConfig ==
    \/ ConfigLoad
    \/ ConfigValidate
    \/ ConfigClear
    \/ \E p \in {<<"deepseek">>, <<"openai">>} :
          UpdateCoreConfig(<<"v">>, p, <<"v">>)
    \/ \E p \in Ports \ {<<>>} : UpdateEmailConfig(<<"v">>, p)
    \/ \E c \in Choices, a \in Answers : Setup(a, c, a, a, a)
    \/ \E p \in Ports, a \in Answers : SetupEmail(a, p, a, a)

SpecConfig == InitConfig /\ [][NextConfig]_vars

----------------------------------------------------------------------------
(* Properties *)

Last(h) == h[Len(h)]

\* history[i] requests tool calls
Requests(h, i) == h[i].role = "assistant" /\ h[i].tool_calls # <<>>

\* history[i] is followed by exactly one tool message per call it requests,
\* in order, each with the id of its call
Answered(h, i) ==
    LET n == Len(h[i].tool_calls)
    IN /\ i + n <= Len(h)
       /\ \A j \in 1..n : /\ h[i + j].role = "tool"
                          /\ h[i + j].tool_call_id = h[i].tool_calls[j].id
       /\ i + n < Len(h) => h[i + n + 1].role # "tool"

\* run() has returned or raised: it is not executing
Returned_ == pc = "idle" /\ ret.how \in {"final", "error", "interrupted", "exception"}

\* C1: whenever run() has ended (final answer, error return, interruption or
\* exception), every assistant message of the history that requests tool
\* calls is immediately followed by one tool message per call, in order,
\* with the matching tool_call_id.
C1_LogAnsweredOnReturn ==
    Returned_ => \A i \in 1..Len(history) : Requests(history, i) => Answered(history, i)

\* C2: a step taken while the tool call being dispatched raises does not
\* leave run() with an exception: it appends the tool message of that call
\* (the failure as its content) and goes on with the next call or the next
\* LLM call.  An interruption by the user is not a tool failure.
C2_ToolFailureContinues ==
    [][(pc = "dispatch"
        /\ execute_tool_call(CurrentCall.name, CurrentCall.arguments).raised
        /\ ret'.how # "interrupted")
       => /\ ret'.how # "exception"
          /\ pc' \in {"dispatch", "chat"}
          /\ Len(history') = Len(history) + 1
          /\ Last(history').role = "tool"
          /\ Last(history').tool_call_id = CurrentCall.id]_vars

\* C3: when run() returns the error string because the transport raised,
\* the history is as long as it was just before that run() began.
C3_ErrorRestoresLength ==
    (pc = "idle" /\ ret.how = "error") => Len(history) = Len(base)

\* C4: when a streamed turn is interrupted after visible text T has been
\* written to the display, run() returns the empty string and the last
\* message of the history is an assistant message without tool calls whose
\* content is exactly T.
C4_InterruptCommitsVisible ==
    [][(pc = "pump" /\ ret'.how = "interrupted" /\ Visible(out) # <<>>)
       => /\ ret'.value = EmptyString
          /\ Last(history').role = "assistant"
          /\ Last(history').tool_calls = <<>>
          /\ Last(history').content = Visible(out)]_vars

\* C5: when the chunk sequence has ended without a terminal response chunk,
\* the next step of run() does not raise: it commits one assistant message
\* without tool calls, built from the accumulated text, as the answer.
C5_MissingTerminalCommits ==
    [][(pc = "decide" /\ message = NoMessage)
       => /\ ret'.how = "final"
          /\ Len(history') = Len(history) + 1
          /\ Last(history').role = "assistant"
          /\ Last(history').tool_calls = <<>>
          /\ Last(history').content \in {full_content, Visible(out)}]_vars

\* the decoder's outputs if the stream ended now: out after the final flush
Flushed == IF pc = "pump" THEN Flush(buffer, thinking_state, out).out ELSE out

NoMarker(text) == ~Contains(text, OpenTag) /\ ~Contains(text, CloseTag)

\* C6: once a stream whose whole text contains neither <think> nor </think>
\* has been pumped and flushed, the visible output is the text exactly and
\* the hidden output is empty.
C6_PassThrough ==
    (pc = "decide" /\ NoMarker(full_content))
    => Visible(out) = full_content /\ Hidden(out) = <<>>

\* a marker-free text longer than the pending buffer was pumped in such a
\* way that a feed and the flush both wrote visible text
C6_Witness ==
    /\ pc = "decide"
    /\ NoMarker(full_content)
    /\ Len(full_content) >= 7
    /\ buffer # <<>>
    /\ Len(buffer) < Len(full_content)
    /\ Visible(out) = full_content

\* no </think> in the text is directly followed by a newline character
\* (line feed or carriage return)
NoNewlineAfterClose(text) ==
    \A i \in Occurrences(text, CloseTag) :
        i + 8 <= Len(text) => text[i + 8] \notin {LF, CR}

HelloWorldFeed ==
    <<<<"<", "t", "h", "i">>,
      <<"n", "k", ">", "h", "e", "l", "l", "o", "<", "/", "t", "h", "i", "n",
        "k", ">", "w", "o", "r", "l", "d">>>>

\* C7: for a text in which no close marker is directly followed by a newline
\* character, however the text consumed so far was cut into chunks, the
\* visible and the hidden output after the flush are those of the same text
\* fed as one chunk; "<thi" then "nk>hello</think>world" gives visible
\* "world" and hidden "hello".
C7_ChunkingIndependent ==
    /\ (pc \in {"pump", "decide"} /\ NoNewlineAfterClose(full_content))
       => /\ Visible(Flushed) = Visible(Whole(full_content).out)
          /\ Hidden(Flushed) = Hidden(Whole(full_content).out)
    /\ LET d == FeedAll(<<>>, FALSE, <<>>, HelloWorldFeed)
       IN /\ Visible(d.out) = <<"w", "o", "r", "l", "d">>
          /\ Hidden(d.out) = <<"h", "e", "l", "l", "o">>

\* a chunk ended inside an open marker and the next chunk completes it, after
\* a reasoning block cut inside its close marker was already decoded
C7_Witness ==
    /\ pc = "pump"
    /\ ~thinking_state
    /\ buffer = <<"<", "t", "h", "i">>
    /\ StartsWith(rest, <<"n", "k", ">">>)
    /\ NoNewlineAfterClose(full_content \o rest)
    /\ Hidden(out) # <<>>

\* C8: the display log accounts for every character taken from the stream
\* exactly once and in order: the text written to the two sinks, together
\* with the recognised markers and the swallowed newlines at their places,
\* is the consumed text less the pending buffer, and after the flush it is
\* the whole text; text is dropped only as a marker or as the one newline
\* after a close marker.
C8_NoDoubleNoLoss ==
    pc \in {"pump", "decide"}
    => /\ pc = "pump" => Taken(out) \o buffer = full_content
       /\ Taken(Flushed) = full_content
       /\ \A i \in 1..Len(out) :
             /\ out[i].kind = "open" => out[i].text = OpenTag
             /\ out[i].kind = "close" => out[i].text = CloseTag
             /\ out[i].kind = "newline"
                => /\ out[i].text \in {<<LF>>, <<CR, LF>>}
                   /\ i > 1 /\ out[i - 1].kind = "close"

\* the flush wrote a non-empty pending buffer to the visible sink after
\* feeds that wrote hidden text and dropped both markers
C8_Witness ==
    /\ pc = "decide"
    /\ buffer # <<>>
    /\ Hidden(out) # <<>>
    /\ \E i \in 1..Len(out) : out[i].kind = "close"
    /\ Visible(out) = buffer
    /\ Len(Emitted(out)) < Len(full_content)

\* C9: the tool messages appended during the dispatch of an assistant message
\* are those of its first calls, in request order and with their ids; when
\* the dispatch of n calls is over and the next LLM call is due, the history
\* ends with that message followed by exactly n tool messages with the ids
\* of the calls in order.
C9_DispatchInOrder ==
    /\ pc = "dispatch"
       => LET k == idx - 1
              a == Len(history) - k
          IN /\ a >= 1
             /\ history[a] = ToDict(message)
             /\ \A j \in 1..k :
                   /\ history[a + j].role = "tool"
                   /\ history[a + j].tool_call_id = message.tool_calls[j].id
    /\ (pc = "chat" /\ step > 0)
       => \E a \in 1..Len(history) :
             /\ Requests(history, a)
             /\ Len(history) = a + Len(history[a].tool_calls)
             /\ Answered(history, a)

\* two calls a and b were dispatched and the next LLM call is due
C9_Witness ==
    /\ pc = "chat"
    /\ step > 0
    /\ Len(history) >= 3
    /\ Requests(history, Len(history) - 2)
    /\ history[Len(history) - 1].tool_call_id = "a"
    /\ Last(history).tool_call_id = "b"

\* C10: when the history is about to be passed to the transport, no assistant
\* message in it contains a text the decoder wrote to the reasoning sink.
C10_HiddenNeverSentBack ==
    pc = "chat"
    => \A i \in 1..Len(history) : \A hidden \in reasoning :
          history[i].role = "assistant" => ~Contains(history[i].content, hidden)

\* the message log is well formed: it starts with the system message and
\* every request for tool calls is answered
Consistent(h) ==
    /\ h # <<>>
    /\ h[1].role = "system"
    /\ \A i \in 1..Len(h) : Requests(h, i) => Answered(h, i)

\* C11: when run() has ended because it was interrupted in the chat call or
\* in the chunk pump, it has returned the empty string (no exception left
\* it), a history that was well formed when run() began is well formed, and
\* an assistant message at its end has no tool calls and a non-empty text.
C11_InterruptEndsRun ==
    (pc = "idle" /\ ret.how = "interrupted" /\ ret.at \in {"chat", "pump"})
    => /\ ret.value = EmptyString
       /\ Consistent(base) => Consistent(history)
       /\ Last(history).role = "assistant"
          => /\ Last(history).tool_calls = <<>>
             /\ Last(history).content # <<>>

\* a stream was interrupted after a dispatch, with text accumulated
C11_Witness ==
    /\ pc = "idle"
    /\ ret.how = "interrupted"
    /\ ret.at = "pump"
    /\ Len(history) >= 5
    /\ Last(history).shape = "object"
    /\ history[Len(history) - 1].role = "tool"

\* C12: no step taken between the start and the return of one run() changes
\* the transport handle self.llm; in particular none taken while the chat
\* call is outstanding.
C12_HandleFixedDuringRun ==
    [][pc # "idle" => llm' = llm]_vars

\* C13 as stated: a dispatch step on a call whose arguments are malformed
\* JSON, unless the user interrupts it, appends the tool message of that call
\* with the content "invalid arguments" and run() goes on with the next call
\* or the next LLM call.
C13_MalformedArgsLiteral ==
    [][(pc = "dispatch" /\ CurrentCall.arguments = ArgsMalformed
        /\ ret'.how # "interrupted")
       => /\ history' = Append(history, ToolMsg(CurrentCall.id, "invalid arguments"))
          /\ ret'.how = "running"
          /\ pc' \in {"dispatch", "chat"}]_vars

\* C13 amended: a dispatch step on a call whose arguments are malformed JSON,
\* unless the user interrupts it, appends the tool message of that call with
\* the content "Error: Invalid JSON arguments." and run() goes on with the
\* next call or the next LLM call.
C13_MalformedArgsReported ==
    [][(pc = "dispatch" /\ CurrentCall.arguments = ArgsMalformed
        /\ ret'.how # "interrupted")
       => /\ history' = Append(history,
                               ToolMsg(CurrentCall.id, "Error: Invalid JSON arguments."))
          /\ ret'.how = "running"
          /\ pc' \in {"dispatch", "chat"}]_vars

\* the first of two calls had malformed arguments, its tool message is the
\* last of the history and the loop is at the second call
C13_Witness ==
    /\ pc = "dispatch"
    /\ idx = 2
    /\ message.tool_calls[1].arguments = ArgsMalformed
    /\ Last(history).role = "tool"
    /\ Last(history).tool_call_id = message.tool_calls[1].id
    /\ Last(history).content = "Error: Invalid JSON arguments."

\* C14: in every state of a session of run, clear_history, save_session and
\* load_session calls the history is non-empty, its first message is the
\* system message and no other message is one; while run() executes, that
\* message is the one computed from the current profile.
C14_SystemFirst ==
    /\ history # <<>>
    /\ history[1].role = "system"
    /\ \A i \in 2..Len(history) : history[i].role # "system"
    /\ pc # "idle" => history[1] = SystemMsg(profile)

\* a saved conversation was loaded after the profile had changed
C14_Witness ==
    /\ op = Op("load", "loaded")
    /\ Len(history) >= 3
    /\ history[1].content = SystemContent("bold")
    /\ file.messages[1].content = SystemContent("cautious")

\* C15: a load_session that directly follows a save_session loads the
\* session and leaves every message as it was when saved, in order, except
\* that the content of the message at index 0 is computed from the current
\* profile.
C15_SaveLoadRoundTrip ==
    [][(op.name = "save" /\ op'.name = "load")
       => /\ op'.result = "loaded"
          /\ history' = [history EXCEPT ![1].content = SystemContent(profile)]]_vars

\* every message of h is in h2 at the same position and unchanged, except
\* for the content of a system message at index 0
Preserved(h, h2) ==
    /\ Len(h2) >= Len(h)
    /\ \A i \in 1..Len(h) :
          IF i = 1 /\ h[1].role = "system"
          THEN [h2[1] EXCEPT !.content = h[1].content] = h[1]
          ELSE h2[i] = h[i]

\* C16: while run() executes and once it has ended, whatever its outcome,
\* the messages the history held when it was called are all there, at their
\* positions and unchanged, except for the content of the system message at
\* index 0: run() only appends.
C16_PriorTurnsKept ==
    Preserved(base, history)

\* a second run() ended with the error string after the profile had changed:
\* the first turn is kept and the system message was refreshed
C16_Witness ==
    /\ pc = "idle"
    /\ ret.how = "error"
    /\ Len(base) >= 3
    /\ Len(history) > Len(base)
    /\ history[1].content # base[1].content
    /\ Preserved(base, history)

\* C17: when run() ends with a final answer it returns the text of that
\* answer, or the empty string provided the pump wrote visible text to the
\* display for this reply.
C17_EmptyOnlyIfRendered ==
    [][(pc = "decide" /\ ret'.how = "final")
       => \/ ret'.value = message.content
          \/ ret'.value = EmptyString /\ Visible(out) # <<>>]_vars

\* C18: every step that makes the chat call hands the transport the whole
\* history as it is at that moment: the same messages in the same order.
C18_FullHistoryPassed ==
    [][pc = "chat" => sent' = history]_vars

\* the second chat call of a run() was given the history with the tool
\* request and the tool messages of the first
C18_Witness ==
    /\ pc = "decide"
    /\ step = 2
    /\ Len(sent) >= 4
    /\ sent = history
    /\ Last(sent).role = "tool"

\* C19: the dispatch of an appended assistant message takes its calls one
\* by one, each step executing the current call and moving to the next,
\* and it ends only at the last call: no call is executed twice and none
\* is left unexecuted.
C19_EachCallOnce ==
    [][pc = "dispatch"
       => IF pc' = "dispatch"
          THEN idx' = idx + 1 /\ message' = message
          ELSE idx = Len(message.tool_calls)]_vars

\* C20: a clear_history call leaves the history with exactly one message,
\* the system message computed from the profile as it is at the call,
\* whatever the history held before.
C20_ClearLeavesSystemOnly ==
    [][(op'.name = "clear" /\ (op.name # "clear" \/ history' # history))
       => history' = <<SystemMsg(profile)>>]_vars

\* the history was cleared after at least one run() and a change of the
\* profile: it is the system message of the new profile alone
C20_Witness ==
    /\ op.name = "clear"
    /\ chats >= 1
    /\ profile = "bold"
    /\ history = <<SystemMsg("bold")>>

\* the text taken from the stream after the entry i of the display log
After(o, i) == Taken(SubSeq(o, i + 1, Len(o)))

\* C21: once a stream has been pumped and flushed, however it was cut into
\* chunks, every close marker the decoder recognised that was directly
\* followed in the stream by "\n" or "\r\n" had that newline swallowed
\* (not written to the visible sink), and a newline is swallowed only
\* directly after a close marker, one per marker.
C21_NewlineSwallowed ==
    pc = "decide"
    => \A i \in 1..Len(out) :
          /\ (out[i].kind = "close"
              /\ (StartsWith(After(out, i), <<LF>>)
                  \/ StartsWith(After(out, i), <<CR, LF>>)))
             => (i < Len(out) /\ out[i + 1].kind = "newline")
          /\ out[i].kind = "newline"
             => (i > 1 /\ out[i - 1].kind = "close"
                 /\ out[i].text \in {<<LF>>, <<CR, LF>>})

\* C27: after every feed of the decoder the pending buffer holds at most 6
\* characters in visible mode and at most 7 in hidden mode, so fewer than
\* the 8 of the longest marker.
C27_PendingBounded ==
    pc \in {"pump", "decide"}
    => /\ Len(buffer) < 8
       /\ ~thinking_state => Len(buffer) <= 6
       /\ thinking_state => Len(buffer) <= 7

\* hidden text longer than the close marker was fed: its head was written
\* to the reasoning sink and 7 characters are pending
C27_Witness ==
    /\ pc = "pump"
    /\ thinking_state
    /\ Len(buffer) = 7
    /\ Hidden(out) # <<>>
    /\ rest # <<>>

\* C28: the step that ends a stream while the decoder is in hidden mode
\* writes the pending buffer to the reasoning sink, writes nothing to the
\* visible sink and goes on to the decision (no error).
C28_FlushHidden ==
    [][(pc = "pump" /\ pc' = "decide" /\ thinking_state)
       => /\ Hidden(out') = Hidden(out) \o buffer
          /\ Visible(out') = Visible(out)
          /\ ret' = ret]_vars

\* a stream ended inside an unterminated reasoning block with text pending,
\* after visible text had been written
C28_Witness ==
    /\ pc = "decide"
    /\ thinking_state
    /\ buffer # <<>>
    /\ Visible(out) # <<>>
    /\ Len(Hidden(out)) >= Len(buffer)
    /\ SubSeq(Hidden(out), Len(Hidden(out)) - Len(buffer) + 1, Len(Hidden(out))) = buffer

\* C22: whenever run() is about to call the LLM, every assistant message
\* with tool calls that this run() appended is followed by the tool
\* messages of all its calls, in call order: within one run() no LLM call
\* is made while a call requested in it lacks its tool message.
C22_ChatAfterDispatch ==
    pc = "chat"
    => \A i \in (Len(base) + 1)..Len(history) :
          Requests(history, i) => Answered(history, i)

\* the second LLM call of a first run() is due after an assistant message
\* with two calls and both tool messages were appended
C22_Witness ==
    /\ pc = "chat"
    /\ step = 1
    /\ Len(base) = 1
    /\ Len(history) = 5
    /\ Requests(history, 3)
    /\ Len(history[3].tool_calls) = 2
    /\ Answered(history, 3)

\* C23: the step on which a run() observes an interruption ends that run()
\* (nothing more is pumped, called or dispatched in it), and it appends one
\* assistant message without tool calls exactly when it interrupts the pump
\* after a non-empty content delta was consumed; otherwise it leaves the
\* history as it is.
C23_InterruptStopsRun ==
    [][(ret.how = "running" /\ ret'.how = "interrupted")
       => /\ pc' = "idle"
          /\ rest' = <<>>
          /\ IF pc = "pump" /\ full_content # <<>>
             THEN /\ Len(history') = Len(history) + 1
                  /\ SubSeq(history', 1, Len(history)) = history
                  /\ Last(history').role = "assistant"
                  /\ Last(history').tool_calls = <<>>
             ELSE history' = history]_vars

\* a stream was interrupted before any content arrived, in the run() after
\* one whose stream was interrupted with text accumulated
C23_Witness ==
    /\ pc = "idle"
    /\ ret.how = "interrupted"
    /\ ret.at = "pump"
    /\ Len(history) = 4
    /\ history[3].shape = "object"
    /\ Last(history).role = "user"

\* C24: a dispatch step replaces the transport handle only when it is the
\* step of the last tool call of the assistant message being dispatched,
\* never between two calls of that message.
C24_RebuildAfterDispatch ==
    [][(pc = "dispatch" /\ llm' # llm) => idx = Len(message.tool_calls)]_vars

\* C25: a dispatch step on a reset_core_config call that leaves the
\* transport handle as it was (the rebuild raised), unless the user
\* interrupts it, does not end run(): it appends the tool message of that
\* call and goes on with the next call or, after the last, the next LLM call.
C25_RebuildFailureContained ==
    [][(pc = "dispatch" /\ CurrentCall.name = "reset_core_config"
        /\ llm' = llm /\ ret'.how # "interrupted")
       => /\ ret'.how = "running"
          /\ Len(history') = Len(history) + 1
          /\ Last(history').role = "tool"
          /\ Last(history').tool_call_id = CurrentCall.id
          /\ IF idx = Len(message.tool_calls)
             THEN pc' = "chat"
             ELSE pc' = "dispatch" /\ idx' = idx + 1]_vars

\* the rebuild after a first call reset_core_config failed (the handle is
\* the initial one), its tool message was appended and the loop is at the
\* second call
C25_Witness ==
    /\ pc = "dispatch"
    /\ idx = 2
    /\ message.tool_calls[1].name = "reset_core_config"
    /\ llm = 0
    /\ Last(history).role = "tool"
    /\ Last(history).tool_call_id = message.tool_calls[1].id

\* C26: in every state every element of the history is a dictionary json
\* serialises (a dictionary that holds no object), and a save_session call
\* succeeds whatever run() outcomes came before it.
C26_HistorySerialisable ==
    /\ Unserialisable(history) = {}
    /\ op.name = "save" => op.result = "saved"

\* C29: the number of LLM calls of one run() is bounded by run() itself:
\* run() stops before it has made as many LLM calls as the LLM is ready to
\* answer with tool requests in the session (MaxChats).
C29_CallsBounded ==
    pc # "idle" => step < MaxChats

\* C30: the step run() takes on a reply without tool calls appends exactly
\* one message, the dictionary of an assistant message with the content of
\* the reply, no tool calls and nothing else, whatever kind of object the
\* reply is; it leaves the earlier messages as they are, makes no LLM call
\* and no dispatch, and ends run() on the final-answer path.
C30_FinalAnswerAppended ==
    [][(pc = "decide" /\ message # NoMessage /\ message.tool_calls = <<>>)
       => /\ Len(history') = Len(history) + 1
          /\ SubSeq(history', 1, Len(history)) = history
          /\ Last(history') = Msg("assistant", message.content, <<>>, NoId, "dict")
          /\ ret'.how = "final"
          /\ pc' = "idle"
          /\ chats' = chats]_vars

\* run() ended with the final answer "ok" given after a tool dispatch
C30_Witness ==
    /\ pc = "idle"
    /\ ret.how = "final"
    /\ Last(history).role = "assistant"
    /\ Last(history).content = Ok
    /\ Last(history).tool_calls = <<>>
    /\ history[Len(history) - 1].role = "tool"

\* C31: a load_session call that finds no file, or a file json cannot
\* parse, returns its message and leaves the history exactly as it was.
C31_FailedLoadKeepsHistory ==
    [][(op'.name = "load" /\ op'.result \in {"none", "error"})
       => history' = history]_vars

\* a load failed on the file a failed save had truncated, and the history
\* still holds the turn with the interrupted reply
C31_Witness ==
    /\ op = Op("load", "error")
    /\ file.state = "truncated"
    /\ Len(history) >= 3
    /\ Last(history).shape = "object"

----------------------------------------------------------------------------
(* The portfolio and the configuration                                     *)

\* the call just made is one the manager has to reject: add_position with
\* amount <= 0 or price <= 0, remove_position for a code not held or for
\* more shares than held
Rejected(h, c) ==
    \/ /\ c.name = "add_position"
       /\ (c.args[2] <= 0 \/ c.args[3] <= 0)
    \/ /\ c.name = "remove_position"
       /\ \/ c.args[1] \notin DOMAIN h.positions
          \/ c.args[2] > h.positions[c.args[1]].amount

\* C32: a rejected PortfolioManager operation returns an error string and
\* leaves positions, cash and the transaction log as they were, and
\* portfolio.json unwritten
C32_RejectedLeavesPortfolio ==
    [][Rejected(holdings, call')
       => /\ call'.returned[1] = "Error: "
          /\ holdings' = holdings
          /\ portfolio_file' = portfolio_file]_vars

\* a sale of more shares than held was refused after a purchase: the file
\* still holds what the purchase saved
C32_Witness ==
    /\ call.name = "remove_position"
    /\ call.returned[1] = "Error: "
    /\ call.args[1] \in DOMAIN holdings.positions
    /\ call.args[2] > holdings.positions[call.args[1]].amount
    /\ Len(holdings.history) = 1
    /\ portfolio_file = PortfolioFile(holdings)

\* every held position has amount > 0 (the half of C33 that holds)
PositionsPositive ==
    \A c \in DOMAIN holdings.positions : holdings.positions[c].amount > 0

\* C33: after any sequence of add_position and remove_position calls every
\* held position has amount > 0, and a remove_position call never increases
\* the amount held of any code and never decreases cash
C33_RemoveOnlyReduces ==
    [][/\ PositionsPositive'
       /\ call'.name = "remove_position"
            => /\ \A c \in DOMAIN holdings'.positions :
                    /\ c \in DOMAIN holdings.positions
                    /\ holdings'.positions[c].amount
                           <= holdings.positions[c].amount
               /\ holdings'.cash >= holdings.cash]_vars

\* a line from which load_dotenv sets none of the core names
OtherLine(line) ==
    Assigned(EnvFile(<<line>>)) \cap {<<n>> : n \in CoreKeys} = {}

\* C34: Config.clear removes from each configuration file the lines that set
\* TUSHARE_TOKEN, LLM_PROVIDER, a DEEPSEEK_ or an OPENAI_ setting, and leaves
\* every other line, the EMAIL_ lines among them, as it was and in the same
\* order
C34_ClearKeepsOtherLines ==
    [][call'.name = "clear"
       => /\ env'.user.exists = env.user.exists
          /\ env'.user.lines = SelectSeq(env.user.lines, OtherLine)
          /\ env'.local.exists = env.local.exists
          /\ env'.local.lines = SelectSeq(env.local.lines, OtherLine)]_vars

====
